---- MODULE Spec2Model ----
(***************************************************************************)
(* snektris: a falling-block game.  The model follows src/main.py:         *)
(* SingleBlock, Tetromino (step_down / step_left / step_right /            *)
(* rotate_clockwise / rotate_anticlockwise / _check_boundaries), the       *)
(* shape classes, Grid.update_blocks and the game loop of main().          *)
(*                                                                         *)
(* A block is its coordinate pair <<i, j>> (row, column); its colour is    *)
(* fixed per class and never read by the game logic.                       *)
(***************************************************************************)
EXTENDS Integers, Sequences, FiniteSets, TLC

\* ---- program constants -------------------------------------------------
GRID_HEIGHT == 20
GRID_WIDTH == 10
START_POSITION == <<0, 4>>
\* main(): "if counter == 30"
GRAVITY_COUNT == 30

\* ---- bounds of the model -----------------------------------------------
\* key events handled in one run of the game loop
MaxEvents == 4
\* frames (iterations of the inner loop) in one run of the game loop
MaxFrames == 3
\* pieces spawned in one run of the game loop
MaxPieces == 2

\* key events and frames of a run that counts its frames from the start
MaxTickEvents == 2
MaxTickFrames == 62
\* key events given to a piece that is followed until it is merged
MaxLiveEvents == 2
\* step_down calls given to a piece that is only dropped
MaxCalls == 20

VARIABLES
    active,       \* main: active_tetromino = [cls, i, j, blocks, done]
    positions,    \* Grid.positions, shared with Tetromino.other_positions
    grid_blocks,  \* Grid.blocks
    counter,      \* main: counter
    game_over,    \* main: game_over
    pc,           \* position in main()
    lastOp,       \* the operation performed by the last step
    moved,        \* whether the last step changed the active piece
    shared,       \* the blocks of the active piece are objects of Grid.blocks
    rendered,     \* the blocks draw_tetrominos has read in the current frame
    ticks,        \* frames completed since the game started
    limit,        \* the limits of the run: [events, frames, pieces]
    nEvents,      \* key events handled so far
    nFrames,      \* frames drawn so far
    nPieces       \* pieces spawned so far

vars == <<active, positions, grid_blocks, counter, game_over, pc, lastOp,
          moved, shared, rendered, ticks, limit, nEvents, nFrames, nPieces>>

\* ---- shape classes -----------------------------------------------------
\* the classes main() chooses from (Square is never instantiated, and has
\* no "center" attribute to construct it with)
Classes == {"SShaped", "TShaped", "ZShaped", "LShaped", "IShaped", "JShaped"}

initial_coords(cls) ==
    CASE cls = "LShaped" -> << <<0, 0>>, <<1, 0>>, <<2, 0>>, <<2, 1>> >>
      [] cls = "JShaped" -> << <<0, 1>>, <<1, 1>>, <<2, 1>>, <<2, 0>> >>
      [] cls = "SShaped" -> << <<0, 0>>, <<1, 0>>, <<1, 1>>, <<2, 1>> >>
      [] cls = "TShaped" -> << <<0, 1>>, <<1, 0>>, <<1, 1>>, <<2, 1>> >>
      [] cls = "ZShaped" -> << <<0, 1>>, <<1, 1>>, <<1, 0>>, <<2, 0>> >>
      [] cls = "IShaped" -> << <<0, 0>>, <<1, 0>>, <<2, 0>>, <<3, 0>> >>

center(cls) ==
    CASE cls = "LShaped" -> <<1, 0>>
      [] cls = "JShaped" -> <<1, 1>>
      [] cls = "SShaped" -> <<1, 0>>
      [] cls = "TShaped" -> <<1, 1>>
      [] cls = "ZShaped" -> <<1, 1>>
      [] cls = "IShaped" -> <<1, 0>>

\* Tetromino._center_coords
center_coords(cls) ==
    [k \in 1..Len(initial_coords(cls)) |->
        <<initial_coords(cls)[k][1] - center(cls)[1],
          initial_coords(cls)[k][2] - center(cls)[2]>>]

\* Tetromino.__init__
Tetromino(cls, i, j) ==
    [cls    |-> cls,
     i      |-> i,
     j      |-> j,
     blocks |-> [k \in 1..Len(center_coords(cls)) |->
                    <<i + center_coords(cls)[k][1], j + center_coords(cls)[k][2]>>],
     done   |-> FALSE]

\* ---- SingleBlock -------------------------------------------------------
block_step_down(b) == <<b[1] + 1, b[2]>>
block_step_left(b) == <<b[1], b[2] - 1>>
block_step_right(b) == <<b[1], b[2] + 1>>

Range(s) == {s[k] : k \in DOMAIN s}
SetMin(S) == CHOOSE x \in S : \A y \in S : x <= y
SetMax(S) == CHOOSE x \in S : \A y \in S : x >= y

\* ---- Tetromino ---------------------------------------------------------
\* step_down that is rejected silently, as step_left and step_right are
step_down_never_settles(t, other_positions) ==
    LET new_blocks == [k \in DOMAIN t.blocks |-> block_step_down(t.blocks[k])]
    IN  IF \E k \in DOMAIN new_blocks : new_blocks[k][1] >= GRID_HEIGHT
        THEN t
        ELSE IF \E k \in DOMAIN new_blocks : new_blocks[k] \in other_positions
        THEN t
        ELSE [t EXCEPT !.i = t.i + 1, !.blocks = new_blocks]

\* step_down that tests "block.i > GRID_HEIGHT"
step_down_past_floor(t, other_positions) ==
    LET new_blocks == [k \in DOMAIN t.blocks |-> block_step_down(t.blocks[k])]
    IN  IF \E k \in DOMAIN new_blocks : new_blocks[k][1] > GRID_HEIGHT
        THEN [t EXCEPT !.done = TRUE]
        ELSE IF \E k \in DOMAIN new_blocks : new_blocks[k] \in other_positions
        THEN [t EXCEPT !.done = TRUE]
        ELSE [t EXCEPT !.i = t.i + 1, !.blocks = new_blocks]

\* step_down that forgets "self.i += 1" when it commits
step_down_keeps_reference(t, other_positions) ==
    LET new_blocks == [k \in DOMAIN t.blocks |-> block_step_down(t.blocks[k])]
    IN  IF \E k \in DOMAIN new_blocks : new_blocks[k][1] >= GRID_HEIGHT
        THEN [t EXCEPT !.done = TRUE]
        ELSE IF \E k \in DOMAIN new_blocks : new_blocks[k] \in other_positions
        THEN [t EXCEPT !.done = TRUE]
        ELSE [t EXCEPT !.blocks = new_blocks]

step_down(t, other_positions) ==
    LET new_blocks == [k \in DOMAIN t.blocks |-> block_step_down(t.blocks[k])]
    IN  IF \E k \in DOMAIN new_blocks : new_blocks[k][1] >= GRID_HEIGHT
        THEN [t EXCEPT !.done = TRUE]
        ELSE IF \E k \in DOMAIN new_blocks : new_blocks[k] \in other_positions
        THEN [t EXCEPT !.done = TRUE]
        ELSE [t EXCEPT !.i = t.i + 1, !.blocks = new_blocks]

\* step_left without the test against other_positions
step_left_no_collision(t, other_positions) ==
    LET new_blocks == [k \in DOMAIN t.blocks |-> block_step_left(t.blocks[k])]
    IN  IF \E k \in DOMAIN new_blocks : new_blocks[k][2] < 0
        THEN t
        ELSE [t EXCEPT !.j = t.j - 1, !.blocks = new_blocks]

step_left(t, other_positions) ==
    LET new_blocks == [k \in DOMAIN t.blocks |-> block_step_left(t.blocks[k])]
    IN  IF \E k \in DOMAIN new_blocks : new_blocks[k][2] < 0
        THEN t
        ELSE IF \E k \in DOMAIN new_blocks : new_blocks[k] \in other_positions
        THEN t
        ELSE [t EXCEPT !.j = t.j - 1, !.blocks = new_blocks]

\* step_right that sets done when it is rejected, as step_down does
step_right_settles(t, other_positions) ==
    LET new_blocks == [k \in DOMAIN t.blocks |-> block_step_right(t.blocks[k])]
    IN  IF \E k \in DOMAIN new_blocks : new_blocks[k][2] > GRID_WIDTH - 1
        THEN [t EXCEPT !.done = TRUE]
        ELSE IF \E k \in DOMAIN new_blocks : new_blocks[k] \in other_positions
        THEN [t EXCEPT !.done = TRUE]
        ELSE [t EXCEPT !.j = t.j + 1, !.blocks = new_blocks]

step_right(t, other_positions) ==
    LET new_blocks == [k \in DOMAIN t.blocks |-> block_step_right(t.blocks[k])]
    IN  IF \E k \in DOMAIN new_blocks : new_blocks[k][2] > GRID_WIDTH - 1
        THEN t
        ELSE IF \E k \in DOMAIN new_blocks : new_blocks[k] \in other_positions
        THEN t
        ELSE [t EXCEPT !.j = t.j + 1, !.blocks = new_blocks]

\* _check_boundaries without the correction at the left wall
check_boundaries_no_left(blocks) ==
    LET max_j == SetMax({blocks[k][2] : k \in DOMAIN blocks})
        max_i == SetMax({blocks[k][1] : k \in DOMAIN blocks})
    IN  IF max_j > GRID_WIDTH - 1
        THEN [k \in DOMAIN blocks |->
                 <<blocks[k][1], blocks[k][2] - (1 + max_j - GRID_WIDTH)>>]
        ELSE IF max_i > GRID_HEIGHT - 1
        THEN [k \in DOMAIN blocks |->
                 <<blocks[k][1] - (1 + max_i - GRID_HEIGHT), blocks[k][2]>>]
        ELSE blocks

\* Tetromino._check_boundaries, on the block list
check_boundaries(blocks) ==
    LET min_j == SetMin({blocks[k][2] : k \in DOMAIN blocks})
        max_j == SetMax({blocks[k][2] : k \in DOMAIN blocks})
        max_i == SetMax({blocks[k][1] : k \in DOMAIN blocks})
    IN  IF min_j < 0
        THEN [k \in DOMAIN blocks |-> <<blocks[k][1], blocks[k][2] - min_j>>]
        ELSE IF max_j > GRID_WIDTH - 1
        THEN [k \in DOMAIN blocks |->
                 <<blocks[k][1], blocks[k][2] - (1 + max_j - GRID_WIDTH)>>]
        ELSE IF max_i > GRID_HEIGHT - 1
        THEN [k \in DOMAIN blocks |->
                 <<blocks[k][1] - (1 + max_i - GRID_HEIGHT), blocks[k][2]>>]
        ELSE blocks

\* rotate_clockwise that assigns block.i first and reads it back for block.j
rotate_clockwise_sequential(t) ==
    [t EXCEPT !.blocks = check_boundaries(
        [k \in DOMAIN t.blocks |->
            LET jj == t.blocks[k][2] - t.j
                ii == (t.i + jj) - t.i
            IN  <<t.i + jj, t.j - ii>>])]

rotate_clockwise(t) ==
    [t EXCEPT !.blocks = check_boundaries(
        [k \in DOMAIN t.blocks |->
            LET ii == t.blocks[k][1] - t.i
                jj == t.blocks[k][2] - t.j
            IN  <<t.i + jj, t.j - ii>>])]

\* rotate_anticlockwise with the assignment of rotate_clockwise
rotate_anticlockwise_as_clockwise(t) ==
    [t EXCEPT !.blocks = check_boundaries(
        [k \in DOMAIN t.blocks |->
            LET ii == t.blocks[k][1] - t.i
                jj == t.blocks[k][2] - t.j
            IN  <<t.i + jj, t.j - ii>>])]

rotate_anticlockwise(t) ==
    [t EXCEPT !.blocks = check_boundaries(
        [k \in DOMAIN t.blocks |->
            LET ii == t.blocks[k][1] - t.i
                jj == t.blocks[k][2] - t.j
            IN  <<t.i - jj, t.j + ii>>])]

\* ---- Grid --------------------------------------------------------------
\* update_blocks that rebuilds positions from the new blocks only
update_positions_replaces(old_positions, new_blocks) == Range(new_blocks)
\* Grid.update_blocks: the new value of Grid.positions
update_positions(old_positions, new_blocks) == old_positions \cup Range(new_blocks)
\* Grid.update_blocks: the new value of Grid.blocks
update_blocks(old_blocks, new_blocks) == old_blocks \o new_blocks

\* ---- grids the game reaches before the modelled run starts -------------
\* n vertical I pieces dropped straight down from the spawn column: the
\* n-th fills rows GRID_HEIGHT-4n .. GRID_HEIGHT-4n+3 of column 4.  With
\* fewer than GRID_HEIGHT \div 4 of them the spawn cell is still free.
StackHeights == 0..(GRID_HEIGHT \div 4 - 1)
StackBlocks(n) ==
    [k \in 1..(4 * n) |->
        <<GRID_HEIGHT - 4 * ((k - 1) \div 4 + 1) + ((k - 1) % 4), START_POSITION[2]>>]

\* ---- a single Tetromino under arbitrary calls --------------------------
\* the piece is replaced by new_active in a step named op
Apply(op, new_active) ==
    /\ active' = new_active
    /\ lastOp' = op
    /\ moved' = (new_active # active)

InitPiece ==
    /\ \E n \in StackHeights :
          /\ grid_blocks = StackBlocks(n)
          /\ positions = Range(StackBlocks(n))
    /\ \E cls \in Classes :
          active = Tetromino(cls, START_POSITION[1], START_POSITION[2])
    /\ counter = 0
    /\ game_over = FALSE
    /\ pc = "piece"
    /\ lastOp = "init"
    /\ moved = FALSE
    /\ shared = FALSE
    /\ rendered = << >>
    /\ ticks = 0
    /\ limit = [events |-> 0, frames |-> 0, pieces |-> 1]
    /\ nEvents = 0
    /\ nFrames = 0
    /\ nPieces = 1

PieceFrame == UNCHANGED <<positions, grid_blocks, counter, game_over, pc,
                          shared, rendered, ticks, limit,
                          nEvents, nFrames, nPieces>>

CallStepDown ==
    /\ pc = "piece"
    /\ Apply("step_down", step_down(active, positions))
    /\ PieceFrame

CallStepLeft ==
    /\ pc = "piece"
    /\ Apply("step_left", step_left(active, positions))
    /\ PieceFrame

CallStepRight ==
    /\ pc = "piece"
    /\ Apply("step_right", step_right(active, positions))
    /\ PieceFrame

CallRotateClockwise ==
    /\ pc = "piece"
    /\ Apply("rotate_clockwise", rotate_clockwise(active))
    /\ PieceFrame

CallRotateAnticlockwise ==
    /\ pc = "piece"
    /\ Apply("rotate_anticlockwise", rotate_anticlockwise(active))
    /\ PieceFrame

NextPiece ==
    \/ CallStepDown
    \/ CallStepLeft
    \/ CallStepRight
    \/ CallRotateClockwise
    \/ CallRotateAnticlockwise

SpecPiece == InitPiece /\ [][NextPiece]_vars

\* ---- a Tetromino given step_down calls only ----------------------------
\* nEvents counts the calls
InitDrop ==
    /\ \E n \in StackHeights :
          /\ grid_blocks = StackBlocks(n)
          /\ positions = Range(StackBlocks(n))
    /\ \E cls \in Classes :
          active = Tetromino(cls, START_POSITION[1], START_POSITION[2])
    /\ counter = 0
    /\ game_over = FALSE
    /\ pc = "drop"
    /\ lastOp = "init"
    /\ moved = FALSE
    /\ shared = FALSE
    /\ rendered = << >>
    /\ ticks = 0
    /\ limit = [events |-> 0, frames |-> 0, pieces |-> 1]
    /\ nEvents = 0
    /\ nFrames = 0
    /\ nPieces = 1

DropStepDown ==
    /\ pc = "drop"
    /\ nEvents < MaxCalls
    /\ Apply("step_down", step_down(active, positions))
    /\ nEvents' = nEvents + 1
    /\ UNCHANGED <<positions, grid_blocks, counter, game_over, pc,
                   shared, rendered, ticks, limit, nFrames, nPieces>>

NextDrop == DropStepDown

SpecDrop == InitDrop /\ [][NextDrop]_vars

\* ---- the game loop of main() -------------------------------------------
\* Grid.active_tetromino before the first spawn
NoPiece == [cls |-> "None", i |-> 0, j |-> 0, blocks |-> << >>, done |-> FALSE]

\* counter when the run starts: 0 on the empty grid; with pieces already
\* locked, 1 (the last one was locked by gravity) or GRAVITY_COUNT (it was
\* soft-dropped in the frame before gravity is due)
StartCounters(n) == IF n = 0 THEN {0} ELSE {1, GRAVITY_COUNT}

\* frames completed when n I pieces have been locked by gravity alone: the
\* k-th is stepped 18 - 4(k-1) times, GRAVITY_COUNT frames apart, the first
\* step being in frame GRAVITY_COUNT + 1
GravityOnlyTicks(n) ==
    IF n = 0 THEN 0
    ELSE 1 + GRAVITY_COUNT * ((GRID_HEIGHT - 2) * n - 2 * n * (n - 1))

\* frames completed when the run starts with n pieces locked and counter c:
\* for c = GRAVITY_COUNT the last piece was soft-dropped in the last frame
\* before gravity is due again
StartTicks(n, c) ==
    IF c = GRAVITY_COUNT
    THEN IF n = 1 THEN GRAVITY_COUNT ELSE GravityOnlyTicks(n - 1) + GRAVITY_COUNT - 1
    ELSE GravityOnlyTicks(n)

\* the state of main() when the run starts, with the limits of the run
GameInit(lim, heights) ==
    /\ \E n \in heights :
          /\ grid_blocks = StackBlocks(n)
          /\ positions = Range(StackBlocks(n))
          /\ counter \in StartCounters(n)
          /\ ticks = StartTicks(n, counter)
    /\ active = NoPiece
    /\ game_over = FALSE
    /\ pc = "spawn"
    /\ lastOp = "init"
    /\ moved = FALSE
    /\ shared = FALSE
    /\ rendered = << >>
    /\ limit = lim
    /\ nEvents = 0
    /\ nFrames = 0
    /\ nPieces = 0

Init ==
    GameInit([events |-> MaxEvents, frames |-> MaxFrames, pieces |-> MaxPieces],
             StackHeights)

GridFrame == UNCHANGED <<positions, grid_blocks, counter, game_over, ticks, limit>>

\* Grid.blocks after the blocks of the active piece were assigned new
\* coordinates in place: the locked blocks that are the same objects follow
mutate_in_place(old_blocks, new_coords, is_shared) ==
    IF is_shared
    THEN SubSeq(old_blocks, 1, Len(old_blocks) - Len(new_coords)) \o new_coords
    ELSE old_blocks

\* while not game_over: a random class is constructed at START_POSITION
Spawn ==
    /\ pc = "spawn"
    /\ ~game_over
    /\ nPieces < limit.pieces
    /\ \E cls \in Classes :
          Apply("spawn", Tetromino(cls, START_POSITION[1], START_POSITION[2]))
    /\ pc' = "events"
    /\ nPieces' = nPieces + 1
    /\ shared' = FALSE
    /\ GridFrame
    /\ UNCHANGED <<nEvents, nFrames, rendered>>

\* one KEYDOWN event of the event loop; a rotation assigns to the block
\* objects in place, a committed step replaces them by new objects
KeyEvent(op, new_active, in_place) ==
    /\ pc = "events"
    /\ nEvents < limit.events
    /\ Apply(op, new_active)
    /\ nEvents' = nEvents + 1
    /\ IF in_place
       THEN /\ grid_blocks' = mutate_in_place(grid_blocks, new_active.blocks, shared)
            /\ shared' = shared
       ELSE /\ grid_blocks' = grid_blocks
            /\ shared' = (shared /\ new_active.blocks = active.blocks)
    /\ UNCHANGED <<positions, counter, game_over, ticks, limit>>
    /\ UNCHANGED <<pc, nFrames, nPieces, rendered>>

KeyX == KeyEvent("rotate_clockwise", rotate_clockwise(active), TRUE)
KeyY == KeyEvent("rotate_anticlockwise", rotate_anticlockwise(active), TRUE)
KeyLeft == KeyEvent("step_left", step_left(active, positions), FALSE)
KeyRight == KeyEvent("step_right", step_right(active, positions), FALSE)
KeyDown == KeyEvent("step_down", step_down(active, positions), FALSE)

\* a QUIT event: main() returns
Quit ==
    /\ pc = "events"
    /\ pc' = "quit"
    /\ Apply("quit", active)
    /\ GridFrame
    /\ UNCHANGED <<nEvents, nFrames, nPieces, shared, rendered>>

\* draw_tetrominos with only the locked blocks
draw_tetrominos_locked_only(t, locked_blocks) == locked_blocks

\* Grid.draw_tetrominos: the blocks it reads, in order
draw_tetrominos(t, locked_blocks) == t.blocks \o locked_blocks

\* the event queue is empty: the frame is drawn and the loop sleeps
\* (a run with limit.frames < 0 does not count its frames)
Draw ==
    /\ pc = "events"
    /\ (limit.frames < 0 \/ nFrames < limit.frames)
    /\ pc' = "gravity"
    /\ Apply("draw", active)
    /\ rendered' = draw_tetrominos(active, grid_blocks)
    /\ nFrames' = IF limit.frames < 0 THEN nFrames ELSE nFrames + 1
    /\ GridFrame
    /\ UNCHANGED <<nEvents, nPieces, shared>>

\* the forced step with "counter += 1" skipped in the frame that resets it
Gravity_restarts_at_zero ==
    /\ pc = "gravity"
    /\ IF counter = GRAVITY_COUNT
       THEN /\ Apply("step_down", step_down(active, positions))
            /\ shared' = (shared /\ active'.blocks = active.blocks)
            /\ counter' = 0
       ELSE /\ Apply("tick", active)
            /\ shared' = shared
            /\ counter' = counter + 1
    /\ ticks' = IF limit.frames < 0 THEN ticks ELSE ticks + 1
    /\ pc' = "check"
    /\ UNCHANGED <<positions, grid_blocks, game_over, limit,
                   nEvents, nFrames, nPieces, rendered>>

\* if counter == 30: step_down, counter = 0; then counter += 1
Gravity ==
    /\ pc = "gravity"
    /\ IF counter = GRAVITY_COUNT
       THEN /\ Apply("step_down", step_down(active, positions))
            /\ shared' = (shared /\ active'.blocks = active.blocks)
            /\ counter' = 0 + 1
       ELSE /\ Apply("tick", active)
            /\ shared' = shared
            /\ counter' = counter + 1
    /\ ticks' = IF limit.frames < 0 THEN ticks ELSE ticks + 1
    /\ pc' = "check"
    /\ UNCHANGED <<positions, grid_blocks, game_over, limit,
                   nEvents, nFrames, nPieces, rendered>>

\* a game-over test on the spawn row instead of the spawn cell
spawn_row_occupied(grid_positions) ==
    \E p \in grid_positions : p[1] = START_POSITION[1]
\* "START_POSITION in grid.positions"
spawn_occupied(grid_positions) == START_POSITION \in grid_positions

\* the end of the frame without the "break" after the merge
Check_without_break ==
    /\ pc = "check"
    /\ IF active.done
       THEN /\ grid_blocks' = update_blocks(grid_blocks, active.blocks)
            /\ positions' = update_positions(positions, active.blocks)
            /\ game_over' = IF spawn_occupied(positions') THEN TRUE ELSE game_over
            /\ pc' = "events"
            /\ shared' = TRUE
            /\ Apply("merge", active)
       ELSE /\ pc' = "events"
            /\ Apply("continue", active)
            /\ UNCHANGED <<positions, grid_blocks, game_over, shared>>
    /\ rendered' = << >>
    /\ UNCHANGED <<counter, ticks, limit, nEvents, nFrames, nPieces>>

\* if active_tetromino.done: merge (Grid.blocks takes the block objects of
\* the piece), test the spawn cell, leave the inner loop (and the outer one
\* when game_over); rendered is what the current frame has drawn
Check ==
    /\ pc = "check"
    /\ IF active.done
       THEN /\ grid_blocks' = update_blocks(grid_blocks, active.blocks)
            /\ positions' = update_positions(positions, active.blocks)
            /\ game_over' = IF spawn_occupied(positions') THEN TRUE ELSE game_over
            /\ pc' = IF game_over' THEN "over" ELSE "spawn"
            /\ shared' = TRUE
            /\ Apply("merge", active)
       ELSE /\ pc' = "events"
            /\ Apply("continue", active)
            /\ UNCHANGED <<positions, grid_blocks, game_over, shared>>
    /\ rendered' = << >>
    /\ UNCHANGED <<counter, ticks, limit, nEvents, nFrames, nPieces>>

Next ==
    \/ Spawn
    \/ KeyX
    \/ KeyY
    \/ KeyLeft
    \/ KeyRight
    \/ KeyDown
    \/ Quit
    \/ Draw
    \/ Gravity
    \/ Check

Spec == Init /\ [][Next]_vars

\* ---- the game loop over many frames, with few key events ---------------
InitTicks ==
    GameInit([events |-> MaxTickEvents, frames |-> MaxTickFrames, pieces |-> MaxPieces],
             {0, GRID_HEIGHT \div 4 - 1})

SpecTicks == InitTicks /\ [][Next]_vars

\* ---- one piece from its spawn on, frames without end, no QUIT ----------
InitLive ==
    GameInit([events |-> MaxLiveEvents, frames |-> -1, pieces |-> 1],
             {0, GRID_HEIGHT \div 4 - 1})

NextLive ==
    \/ Spawn
    \/ KeyX
    \/ KeyY
    \/ KeyLeft
    \/ KeyRight
    \/ KeyDown
    \/ Draw
    \/ Gravity
    \/ Check

\* the loop never blocks: every frame is drawn, counted and checked
SpecLive ==
    /\ InitLive
    /\ [][NextLive]_vars
    /\ WF_vars(Spawn)
    /\ WF_vars(Draw)
    /\ WF_vars(Gravity)
    /\ WF_vars(Check)

\* ---- properties --------------------------------------------------------
InGrid(p) == p[1] >= 0 /\ p[1] < GRID_HEIGHT /\ p[2] >= 0 /\ p[2] < GRID_WIDTH
Rotations == {"rotate_clockwise", "rotate_anticlockwise"}
\* the coordinate d columns to the right of block k of the active piece
SideTarget(k, d) == <<active.blocks[k][1], active.blocks[k][2] + d>>
\* the coordinate one row below block k of the active piece
DownTarget(k) == <<active.blocks[k][1] + 1, active.blocks[k][2]>>
DownBlocked ==
    \E k \in DOMAIN active.blocks :
        DownTarget(k)[1] >= GRID_HEIGHT \/ DownTarget(k) \in positions
SideBlocked(d) ==
    \E k \in DOMAIN active.blocks :
        SideTarget(k, d)[2] \notin 0..(GRID_WIDTH - 1) \/ SideTarget(k, d) \in positions
\* a step_left (d = -1) or step_right (d = 1) step is all or nothing
SideStep(d) ==
    IF SideBlocked(d)
    THEN active' = active
    ELSE active' = [active EXCEPT !.j = active.j + d,
                                  !.blocks = [k \in DOMAIN active.blocks |-> SideTarget(k, d)]]

\* C12: an I piece constructed at START_POSITION on the empty grid and given
\* 19 step_down calls is done, and its blocks are in column 4 on the
\* consecutive rows GRID_HEIGHT-4 .. GRID_HEIGHT-1.
C12_IShapedDrop ==
    (pc = "drop" /\ active.cls = "IShaped" /\ positions = {} /\ nEvents = 19) =>
        /\ active.done
        /\ SetMax({active.blocks[k][1] : k \in DOMAIN active.blocks}) = GRID_HEIGHT - 1
        /\ \A k \in DOMAIN active.blocks : active.blocks[k][2] = START_POSITION[2]
        /\ \A k \in 1..(Len(active.blocks) - 1) :
              active.blocks[k + 1][1] = active.blocks[k][1] + 1

\* C12 witness: the I piece on the empty grid after its 19th step_down
C12_Witness ==
    /\ pc = "drop"
    /\ active.cls = "IShaped"
    /\ positions = {}
    /\ nEvents = 19
    /\ lastOp = "step_down"
    /\ active.done

\* C1: a step_down whose target rows reach GRID_HEIGHT or whose targets are
\* occupied changes no coordinate and sets done; any other step_down moves
\* all blocks and the reference one row down, columns and done unchanged.
C1_StepDownAllOrNothing ==
    [][lastOp' = "step_down" =>
         IF DownBlocked
         THEN active' = [active EXCEPT !.done = TRUE]
         ELSE active' = [active EXCEPT !.i = active.i + 1,
                                       !.blocks = [k \in DOMAIN active.blocks |-> DownTarget(k)]]]_vars

\* C1 witness: a step_down was rejected by an occupied cell, away from the floor
C1_Witness ==
    /\ lastOp = "step_down"
    /\ active.done
    /\ \A k \in DOMAIN active.blocks : active.blocks[k][1] + 1 < GRID_HEIGHT
    /\ \E k \in DOMAIN active.blocks :
          <<active.blocks[k][1] + 1, active.blocks[k][2]>> \in positions

\* C2: a step_left / step_right whose target leaves the columns of the grid
\* or hits an occupied cell changes nothing (done included); any other one
\* shifts all blocks and the reference by one column, rows unchanged.
C2_StepSideAllOrNothing ==
    [][/\ lastOp' = "step_left" => SideStep(-1)
       /\ lastOp' = "step_right" => SideStep(1)]_vars

\* C2 witness: a step_left at the left wall left the falling piece as it was
C2_Witness ==
    /\ lastOp = "step_left"
    /\ ~moved
    /\ ~active.done
    /\ \E k \in DOMAIN active.blocks : active.blocks[k][2] = 0

\* C3: done is false at construction, becomes true only in a rejected
\* step_down, and is never set back to false.
C3_SettledIsTerminal ==
    /\ active.done = FALSE
    /\ [][/\ active.done => active'.done
          /\ (~active.done /\ active'.done) =>
                /\ lastOp' = "step_down"
                /\ DownBlocked
                /\ active'.blocks = active.blocks
                /\ active'.i = active.i
                /\ active'.j = active.j]_vars

\* C3 witness: a settled piece went through a later rotation and is still settled
C3_Witness ==
    /\ active.done
    /\ lastOp \in Rotations
    /\ moved

\* C4: once done is true, no later operation on the piece changes a block
\* coordinate or the reference coordinate.
C4_SettledImmutable ==
    [][(active.done /\ lastOp' # "spawn") =>
           /\ active'.blocks = active.blocks
           /\ active'.i = active.i
           /\ active'.j = active.j]_vars

\* C5: after a merge the loop ends with game over exactly when
\* START_POSITION is in the occupied set, and otherwise goes on to spawn;
\* the loop is over only when game_over is set.
C5_GameOverIffSpawnOccupied ==
    /\ [](pc = "over" <=> game_over)
    /\ [][lastOp' = "merge" =>
            /\ pc' = "over" <=> START_POSITION \in positions'
            /\ pc' # "over" => pc' = "spawn"]_vars

\* C5 witness: a merge filled the spawn cell and ended the game
C5_Witness ==
    /\ lastOp = "merge"
    /\ pc = "over"
    /\ START_POSITION \in positions

\* C6: every merge adds exactly 4 coordinates to the occupied set.
C6_MergeAddsFour ==
    [][lastOp' = "merge" =>
           Cardinality(positions') = Cardinality(positions) + 4]_vars

\* C7: after a step_down or a rotation every block of the piece has
\* 0 <= row < GRID_HEIGHT.
C7_RowsInRange ==
    lastOp \in {"step_down"} \cup Rotations =>
        \A k \in DOMAIN active.blocks :
            active.blocks[k][1] >= 0 /\ active.blocks[k][1] < GRID_HEIGHT

\* C8: after every call every block of the piece has its column in
\* 0 .. GRID_WIDTH-1.
C8_ColumnsInRange ==
    \A k \in DOMAIN active.blocks :
        active.blocks[k][2] >= 0 /\ active.blocks[k][2] <= GRID_WIDTH - 1

\* C8 witness: a rotation at the left wall was corrected: a block lies three
\* columns right of the reference, and the leftmost block is in column 0
C8_Witness ==
    /\ lastOp \in Rotations
    /\ active.j = 0
    /\ \E k \in DOMAIN active.blocks : active.blocks[k][2] = 0
    /\ \E k \in DOMAIN active.blocks : active.blocks[k][2] = 3

\* C9: every coordinate of the occupied set and every locked block lies
\* inside the grid.
C9_LockedInsideGrid ==
    /\ \A p \in positions : InGrid(p)
    /\ \A k \in DOMAIN grid_blocks : InGrid(grid_blocks[k])

\* C10: the occupied set only grows, and only a merge changes it.
C10_OccupiedOnlyGrowsByMerge ==
    [][/\ positions \subseteq positions'
       /\ positions' # positions => lastOp' = "merge"]_vars

\* C10 witness: a merge added a cell outside the spawn column to a grid
\* that already held locked cells
C10_Witness ==
    /\ lastOp = "merge"
    /\ \E p \in positions : p[2] # START_POSITION[2]
    /\ \E p \in positions : p = <<GRID_HEIGHT - 1, START_POSITION[2]>>

\* the quarter turn of the blocks of t about its reference, before any
\* correction: clockwise (di, dj) -> (dj, -di), anticlockwise (-dj, di)
QuarterTurn(t, clockwise) ==
    [k \in DOMAIN t.blocks |->
        LET di == t.blocks[k][1] - t.i
            dj == t.blocks[k][2] - t.j
        IN  IF clockwise THEN <<t.i + dj, t.j - di>> ELSE <<t.i - dj, t.j + di>>]
MinColumn(bs) == SetMin({bs[k][2] : k \in DOMAIN bs})
MaxColumn(bs) == SetMax({bs[k][2] : k \in DOMAIN bs})
MaxRow(bs) == SetMax({bs[k][1] : k \in DOMAIN bs})
\* the blocks bs translated by (dr, dc)
Shifted(bs, dr, dc) == [k \in DOMAIN bs |-> <<bs[k][1] + dr, bs[k][2] + dc>>]
\* no boundary correction applies to the blocks bs
Uncorrected(bs) ==
    MinColumn(bs) >= 0 /\ MaxColumn(bs) <= GRID_WIDTH - 1 /\ MaxRow(bs) <= GRID_HEIGHT - 1
\* none of four clockwise rotations of t triggers boundary correction
FourTurnsUncorrected(t) ==
    LET r1 == rotate_clockwise(t)
        r2 == rotate_clockwise(r1)
        r3 == rotate_clockwise(r2)
    IN  /\ Uncorrected(QuarterTurn(t, TRUE))
        /\ Uncorrected(QuarterTurn(r1, TRUE))
        /\ Uncorrected(QuarterTurn(r2, TRUE))
        /\ Uncorrected(QuarterTurn(r3, TRUE))

\* C11: when none of the four rotations triggers boundary correction,
\* rotate_clockwise applied four times returns every block, index by index,
\* to its coordinate and leaves the reference coordinate unchanged.
C11_FourClockwiseTurns ==
    FourTurnsUncorrected(active) =>
        rotate_clockwise(rotate_clockwise(rotate_clockwise(rotate_clockwise(active)))) = active

\* C11 witness: an L piece away from the edges, just rotated, with four
\* uncorrected rotations ahead
C11_Witness ==
    /\ lastOp = "rotate_clockwise"
    /\ moved
    /\ active.cls = "LShaped"
    /\ active.i = 5
    /\ FourTurnsUncorrected(active)

\* C14: rotate_clockwise maps offset (di, dj) to (ref.row + dj, ref.col - di)
\* and rotate_anticlockwise to (ref.row - dj, ref.col + di) for all blocks;
\* then one translation at most: right by the deficit if the minimum column
\* is negative, else left by the excess over GRID_WIDTH-1, else up by the
\* excess over GRID_HEIGHT-1.  Reference and done are untouched.
RotationResult(clockwise) ==
    LET turned == QuarterTurn(active, clockwise)
    IN  IF MinColumn(turned) < 0
        THEN Shifted(turned, 0, 0 - MinColumn(turned))
        ELSE IF MaxColumn(turned) > GRID_WIDTH - 1
        THEN Shifted(turned, 0, (GRID_WIDTH - 1) - MaxColumn(turned))
        ELSE IF MaxRow(turned) > GRID_HEIGHT - 1
        THEN Shifted(turned, (GRID_HEIGHT - 1) - MaxRow(turned), 0)
        ELSE turned
C14_RotationAndCorrection ==
    [][/\ lastOp' = "rotate_clockwise" =>
            active' = [active EXCEPT !.blocks = RotationResult(TRUE)]
       /\ lastOp' = "rotate_anticlockwise" =>
            active' = [active EXCEPT !.blocks = RotationResult(FALSE)]]_vars

\* C14 witness: an anticlockwise rotation at the right wall was corrected:
\* the rightmost block is in the last column, another three columns left
\* of the reference
C14_Witness ==
    /\ lastOp = "rotate_anticlockwise"
    /\ moved
    /\ active.j = GRID_WIDTH - 1
    /\ \E k \in DOMAIN active.blocks : active.blocks[k][2] = GRID_WIDTH - 1
    /\ \E k \in DOMAIN active.blocks : active.blocks[k][2] = GRID_WIDTH - 4

\* C13: while a piece is active (between its spawn and its merge), none of
\* its blocks is on a locked cell.
C13_ActiveDisjointFromLocked ==
    pc \in {"events", "gravity", "check"} =>
        \A k \in DOMAIN active.blocks : active.blocks[k] \notin positions

\* C18: at every merge some block of the piece is on the last row or has
\* the cell directly below it in the occupied set as it was before the merge.
C18_MergedPieceRests ==
    [][lastOp' = "merge" =>
           \E k \in DOMAIN active.blocks :
               \/ active.blocks[k][1] = GRID_HEIGHT - 1
               \/ <<active.blocks[k][1] + 1, active.blocks[k][2]>> \in positions]_vars

\* C19: no block of a newly spawned piece is in the occupied set.
C19_SpawnOnFreeCells ==
    lastOp = "spawn" =>
        \A k \in DOMAIN active.blocks : active.blocks[k] \notin positions

PieceOps == {"step_down", "step_left", "step_right"} \cup Rotations

\* C15 (as stated): when the mutations of a frame are complete, what the
\* frame has rendered is the state of the piece and of the locked blocks.
C15_RenderAfterAllMutations ==
    pc = "check" => rendered = active.blocks \o grid_blocks

\* C15 (amended): in every frame the key events are applied before anything
\* is rendered, the rendering reads the state they leave, and the forced
\* step_down comes after the rendering, which is not repeated in the frame.
C15_InputsRenderGravity ==
    [][/\ (pc = "events" /\ lastOp' \in PieceOps) => (rendered = << >> /\ rendered' = << >>)
       /\ lastOp' = "draw" =>
             (pc = "events" /\ active' = active /\ rendered' = active.blocks \o grid_blocks)
       /\ pc = "gravity" =>
             (rendered = active.blocks \o grid_blocks /\ rendered' = rendered)
       /\ lastOp' \in PieceOps => pc \in {"events", "gravity"}]_vars

\* C15 witness: after a key event of the frame and its rendering, the forced
\* step_down moved the piece away from what was rendered
C15_Witness ==
    /\ pc = "check"
    /\ lastOp = "step_down"
    /\ moved
    /\ ~active.done
    /\ nEvents > 0
    /\ rendered # << >>
    /\ rendered # active.blocks \o grid_blocks

\* C16: with ticks the number of frames completed since the game started,
\* the frame applies the forced step_down exactly when ticks is a positive
\* multiple of 30.
C16_GravityEveryThirtyTicks ==
    [][pc = "gravity" =>
           (lastOp' = "step_down" <=> (ticks > 0 /\ ticks % 30 = 0))]_vars

\* C16 witness: the second forced step_down of a game, in the frame after
\* tick 60, with key events handled before it
C16_Witness ==
    /\ pc = "check"
    /\ lastOp = "step_down"
    /\ ticks = 61
    /\ nEvents > 0

C20_LockedBlocksFixed ==
    /\ [](\A k \in DOMAIN grid_blocks : grid_blocks[k] \in positions)
    /\ [][/\ Len(grid_blocks') >= Len(grid_blocks)
          /\ \A k \in DOMAIN grid_blocks : grid_blocks'[k] = grid_blocks[k]]_vars

\* C20 witness: after a merge in this run the next piece has been rotated
C20_Witness ==
    /\ nPieces = 2
    /\ lastOp \in Rotations
    /\ moved
    /\ Len(grid_blocks) > 0

\* frames completed and counter agree
TicksAndCounter ==
    IF ticks = 0 THEN counter = 0 ELSE counter = ((ticks - 1) % GRAVITY_COUNT) + 1

====
